---- MODULE Spec2Model ----
(***************************************************************************)
(* Output resolution of a pipeline node                                    *)
(* (tfx/orchestration/portable/outputs_utils.py), placeholder expressions  *)
(* (tfx/dsl/placeholder/placeholder.py) and the compilation of an authored *)
(* pipeline (tfx/dsl/compiler).                                            *)
(*                                                                         *)
(* A Python str is a sequence of one-character strings, so that joining,   *)
(* formatting and splitting are computed character by character.  A        *)
(* storage location is the sequence of the components of a path.           *)
(***************************************************************************)
EXTENDS Integers, Sequences, FiniteSets, TLC

VARIABLES
    resolvers,   \* instance -> the fields of one OutputsResolver
    dirs,        \* storage: the locations that are directories
    files,       \* storage: location of a file -> its content
    faulty,      \* whether the storage layer may refuse a call (StorageError)
    last,        \* the last call: operation, arguments, return value or error, storage calls
    results,     \* history, of the instances in its domain:
                 \*   execution id -> what generate_output_artifacts returned
    touched,     \* history, of the instances in its domain:
                 \*   the locations the instance's calls created or removed
    handles,     \* placeholder handle -> the fields of one Placeholder object
    journal,     \* history: placeholder handle -> the calls made on it, the first
                 \*   of them the function that created it
    encoded,     \* the last call, when it was an encode(): the handle, what the
                 \*   call returned or raised and the handles before it
    authored,    \* the authored pipeline given to the compiler
    compiled     \* what compile returned or raised for it

placeholder_vars == <<handles, journal, encoded>>

compiler_vars == <<authored, compiled>>

vars == <<resolvers, dirs, files, faulty, last, results, touched,
          handles, journal, encoded, authored, compiled>>

----------------------------------------------------------------------------
(* Bounds *)

\* the executions whose storage is modelled have the ids
\* FirstExecutionId .. FirstExecutionId + MaxExecutions - 1
MaxExecutions == 1
FirstExecutionId == 9
\* where only generate_output_artifacts is called, the execution ids are
\* FirstExecutionId .. FirstExecutionId + MaxAttempts - 1
MaxAttempts == 2
\* opaque identifiers are the non-empty strings over IdChars of at most this length
MaxIdLen == 2
\* the fluent calls made on the placeholder handles, all together
MaxOperations == 3
\* encode() calls nested deeper than this raise RecursionError; no encoding
\* of handles that are not operands of themselves nests as deep
RecursionLimit == 3
\* the nodes of an authored pipeline
MaxNodes == 2

ExecutionIds == FirstExecutionId .. (FirstExecutionId + MaxExecutions - 1)

AttemptIds == FirstExecutionId .. (FirstExecutionId + MaxAttempts - 1)

----------------------------------------------------------------------------
(* Strings *)

EXECUTION == <<"e","x","e","c","u","t","i","o","n">>
STATEFUL_WORKING_DIR ==
    <<"s","t","a","t","e","f","u","l","_","w","o","r","k","i","n","g","_","d","i","r">>
EXECUTION_OUTPUT_FILE ==
    <<"e","x","e","c","u","t","o","r","_","o","u","t","p","u","t",".","p","b">>
VALUE_ARTIFACT_FILE_NAME == <<"v","a","l","u","e">>

DigitChars == <<"0","1","2","3","4","5","6","7","8","9">>

\* str(n) for an int: decimal digits, most significant first
RECURSIVE Str(_)
Str(n) ==
    IF n < 0 THEN <<"-">> \o Str(-n)
    ELSE IF n < 10 THEN <<DigitChars[n + 1]>>
    ELSE Str(n \div 10) \o <<DigitChars[(n % 10) + 1]>>

\* posixpath.join(a, b): an absolute b discards a; no separator is doubled
PathJoin2(a, b) ==
    IF b /= <<>> /\ Head(b) = "/" THEN b
    ELSE IF a = <<>> \/ a[Len(a)] = "/" THEN a \o b
    ELSE a \o <<"/">> \o b

\* os.path.join(parts[1], parts[2], ...)
RECURSIVE PathJoin(_)
PathJoin(parts) ==
    IF Len(parts) = 1 THEN parts[1]
    ELSE PathJoin2(PathJoin(SubSeq(parts, 1, Len(parts) - 1)), parts[Len(parts)])

\* index of the last "/" of s, 0 when there is none
RECURSIVE LastSep(_)
LastSep(s) ==
    IF s = <<>> THEN 0
    ELSE IF s[Len(s)] = "/" THEN Len(s)
    ELSE LastSep(SubSeq(s, 1, Len(s) - 1))

RECURSIVE RStripSep(_)
RStripSep(s) ==
    IF s /= <<>> /\ s[Len(s)] = "/" THEN RStripSep(SubSeq(s, 1, Len(s) - 1)) ELSE s

\* os.path.dirname(p): everything before the last "/", trailing separators
\* stripped unless it consists of separators only
DirName(p) ==
    LET head == SubSeq(p, 1, LastSep(p))
    IN  IF RStripSep(head) = <<>> THEN head ELSE RStripSep(head)

\* '{0}:{1}:{2}:{3}:{4}'.format(...)
FormatName(pipeline_id, run_id, node_id, key, index) ==
    pipeline_id \o <<":">> \o run_id \o <<":">> \o node_id \o <<":">> \o key
        \o <<":">> \o Str(index)

----------------------------------------------------------------------------
(* Storage: the file system behind fileio *)

\* the components of a path: split at "/", empty components dropped
RECURSIVE Split(_, _)
Split(s, cur) ==
    IF s = <<>> THEN (IF cur = <<>> THEN <<>> ELSE <<cur>>)
    ELSE IF Head(s) = "/"
         THEN (IF cur = <<>> THEN <<>> ELSE <<cur>>) \o Split(Tail(s), <<>>)
         ELSE Split(Tail(s), Append(cur, Head(s)))

Components(path) == Split(path, <<>>)

Prefixes(c) == {SubSeq(c, 1, n) : n \in 0 .. Len(c)}

Range(f) == {f[x] : x \in DOMAIN f}

IsPrefix(p, q) == Len(p) <= Len(q) /\ SubSeq(q, 1, Len(p)) = p

NoError == [fn |-> "", path |-> <<>>, why |-> ""]

\* why: "conflict" (a file or a directory is in the way), "missing" (nothing
\* is there), "unavailable" (the storage layer refused the call)
StorageError(fn, path, why) == [fn |-> fn, path |-> path, why |-> why]

NoFiles == [p \in {} |-> ""]

EmptyStorage == [dirs |-> {<<>>}, files |-> NoFiles]

IsDir(fs, path) == Components(path) \in fs.dirs

IsFile(fs, path) == Components(path) \in DOMAIN fs.files

Exists(fs, path) == IsDir(fs, path) \/ IsFile(fs, path)

\* fileio.makedirs(path): creates the directory and every missing ancestor;
\* succeeds when the directory exists; fails when a component is a file
FsMakedirs(fs, path) ==
    LET c == Components(path)
    IN  IF \E p \in Prefixes(c) : p \in DOMAIN fs.files
        THEN [error |-> StorageError("makedirs", path, "conflict"), fs |-> fs]
        ELSE [error |-> NoError,
              fs |-> [fs EXCEPT !.dirs = fs.dirs \cup Prefixes(c)]]

\* with fileio.open(path, 'w') as f: f.write(data): creates or truncates the
\* file; fails on a directory or when the parent directory is missing
FsWrite(fs, path, data) ==
    LET c == Components(path)
    IN  IF c = <<>> \/ c \in fs.dirs \/ SubSeq(c, 1, Len(c) - 1) \notin fs.dirs
        THEN [error |-> StorageError("open", path,
                                     IF c \in fs.dirs THEN "conflict" ELSE "missing"),
              fs |-> fs]
        ELSE [error |-> NoError,
              fs |-> [fs EXCEPT !.files =
                        [p \in (DOMAIN fs.files) \cup {c} |->
                            IF p = c THEN data ELSE fs.files[p]]]]

\* fileio.rmtree(path): removes the directory and everything under it
FsRmtree(fs, path) ==
    LET c == Components(path)
    IN  IF c \notin fs.dirs \/ c = <<>>
        THEN [error |-> StorageError("rmtree", path, "missing"), fs |-> fs]
        ELSE [error |-> NoError,
              fs |-> [dirs |-> {d \in fs.dirs : ~IsPrefix(c, d)},
                      files |-> [p \in {q \in DOMAIN fs.files : ~IsPrefix(c, q)} |->
                                    fs.files[p]]]]

\* fileio.remove(path): removes one file; fails when there is no such file
FsRemove(fs, path) ==
    LET c == Components(path)
    IN  IF c \notin DOMAIN fs.files
        THEN [error |-> StorageError("remove", path, "missing"), fs |-> fs]
        ELSE [error |-> NoError,
              fs |-> [fs EXCEPT !.files =
                        [p \in (DOMAIN fs.files) \ {c} |-> fs.files[p]]]]

\* One storage call of a handler.  calls is the handler's trace so far; the
\* call numbered fail is refused by the storage layer (0: none is).
StorageCall(fn, fs, path, calls, fail) ==
    LET r == IF Len(calls) + 1 = fail THEN [error |-> StorageError(fn, path, "unavailable"), fs |-> fs]
             ELSE IF fn = "makedirs" THEN FsMakedirs(fs, path)
             ELSE IF fn = "open" THEN FsWrite(fs, path, "")
             ELSE IF fn = "rmtree" THEN FsRmtree(fs, path)
             ELSE FsRemove(fs, path)
    IN  [error |-> r.error, fs |-> r.fs,
         calls |-> Append(calls, [fn |-> fn, path |-> path, error |-> r.error])]

----------------------------------------------------------------------------
(* Artifacts and the two free functions *)

ArtifactTypes == {"Model", "String"}

\* the types whose class derives from ValueArtifact
ValueArtifactTypes == {"String"}

\* artifact_utils.deserialize_artifact(type): a fresh artifact of the type
DeserializeArtifact(type) == [type |-> type, uri |-> <<>>, name |-> <<>>]

\* isinstance(artifact, ValueArtifact)
IsValueArtifact(artifact) == artifact.type \in ValueArtifactTypes

\* the artifacts of an output dict in iteration order; an output dict is the
\* sequence of its items [key, artifacts]
RECURSIVE ArtifactsOf(_)
ArtifactsOf(output_dict) ==
    IF output_dict = <<>> THEN <<>>
    ELSE Head(output_dict).artifacts \o ArtifactsOf(Tail(output_dict))

Raised(error, fs, calls) == [error |-> error, ret |-> <<>>, fs |-> fs, calls |-> calls]

Returned(ret, fs, calls) == [error |-> NoError, ret |-> ret, fs |-> fs, calls |-> calls]

\* a variant: the file is opened and nothing is written to it, and a file
\* that is opened without a write is not created
MakeValueFile_NoWrite(fs, artifact, calls, fail) ==
    StorageCall("makedirs", fs, DirName(artifact.uri), calls, fail)

\* a value artifact: the directory of the uri, then the file, with '' written
\* to it so that it is created
MakeValueFile(fs, artifact, calls, fail) ==
    LET artifact_dir == DirName(artifact.uri)
        mk == StorageCall("makedirs", fs, artifact_dir, calls, fail)
    IN  IF mk.error /= NoError THEN mk
        ELSE StorageCall("open", mk.fs, artifact.uri, mk.calls, fail)

\* any other artifact: a directory at the uri
MakeDir(fs, artifact, calls, fail) ==
    StorageCall("makedirs", fs, artifact.uri, calls, fail)

\* the loops of make_output_dirs, from the artifact at the head of arts; an
\* error of a storage call ends them
RECURSIVE MakeDirsFrom(_, _, _, _)
MakeDirsFrom(fs, arts, calls, fail) ==
    IF arts = <<>> THEN Returned(<<>>, fs, calls)
    ELSE LET artifact == Head(arts)
             made == IF IsValueArtifact(artifact)
                     THEN MakeValueFile(fs, artifact, calls, fail)
                     ELSE MakeDir(fs, artifact, calls, fail)
         IN  IF made.error /= NoError THEN Raised(made.error, made.fs, made.calls)
             ELSE MakeDirsFrom(made.fs, Tail(arts), made.calls, fail)

\* a variant: what was created is removed again when a storage call fails
make_output_dirs_CleansUp(fs, output_dict, fail) ==
    LET out == MakeDirsFrom(fs, ArtifactsOf(output_dict), <<>>, fail)
    IN  IF out.error /= NoError THEN [out EXCEPT !.fs = fs] ELSE out

make_output_dirs(fs, output_dict, fail) ==
    MakeDirsFrom(fs, ArtifactsOf(output_dict), <<>>, fail)

\* a variant: only directories are removed
RemoveArtifact_DirsOnly(fs, artifact, calls, fail) ==
    IF IsDir(fs, artifact.uri)
    THEN StorageCall("rmtree", fs, artifact.uri, calls, fail)
    ELSE [error |-> NoError, fs |-> fs, calls |-> calls]

\* one artifact of remove_output_dirs: a directory with all under it, or a file
RemoveArtifact(fs, artifact, calls, fail) ==
    IF IsDir(fs, artifact.uri)
    THEN StorageCall("rmtree", fs, artifact.uri, calls, fail)
    ELSE StorageCall("remove", fs, artifact.uri, calls, fail)

\* the loops of remove_output_dirs
RECURSIVE RemoveDirsFrom(_, _, _, _)
RemoveDirsFrom(fs, arts, calls, fail) ==
    IF arts = <<>> THEN Returned(<<>>, fs, calls)
    ELSE LET rm == RemoveArtifact(fs, Head(arts), calls, fail)
         IN  IF rm.error /= NoError THEN Raised(rm.error, rm.fs, rm.calls)
             ELSE RemoveDirsFrom(rm.fs, Tail(arts), rm.calls, fail)

remove_output_dirs(fs, output_dict, fail) ==
    RemoveDirsFrom(fs, ArtifactsOf(output_dict), <<>>, fail)

----------------------------------------------------------------------------
(* OutputsResolver *)

\* OutputsResolver.__init__: the fields kept; outputs is the node's outputs
\* map as the sequence of its items [key, type] in the map's iteration order
OutputsResolver(pipeline_id, pipeline_root, pipeline_run_id, node_id, outputs) ==
    [pipeline_id |-> pipeline_id,
     pipeline_root |-> pipeline_root,
     pipeline_run_id |-> pipeline_run_id,
     node_id |-> node_id,
     outputs |-> outputs,
     node_dir |-> PathJoin(<<pipeline_root, node_id>>)]

DeclaredKeys(self) == {item.key : item \in Range(self.outputs)}

\* a variant: the uri is derived from the run, not from the execution
ArtifactUri_PerRun(self, key, type, execution_id) ==
    LET uri == PathJoin(<<self.node_dir, key, self.pipeline_run_id>>)
    IN  IF IsValueArtifact(DeserializeArtifact(type))
        THEN PathJoin(<<uri, VALUE_ARTIFACT_FILE_NAME>>)
        ELSE uri

ArtifactUri(self, key, type, execution_id) ==
    LET uri == PathJoin(<<self.node_dir, key, Str(execution_id)>>)
    IN  IF IsValueArtifact(DeserializeArtifact(type))
        THEN PathJoin(<<uri, VALUE_ARTIFACT_FILE_NAME>>)
        ELSE uri

\* a variant: node id and run id change places in the name
ArtifactName_NodeFirst(self, key) ==
    FormatName(self.pipeline_id, self.node_id, self.pipeline_run_id, key, 0)

ArtifactName(self, key) ==
    FormatName(self.pipeline_id, self.pipeline_run_id, self.node_id, key, 0)

\* the dict generate_output_artifacts builds, its items in iteration order
OutputArtifacts(self, execution_id) ==
    [n \in 1 .. Len(self.outputs) |->
        LET key == self.outputs[n].key
            type == self.outputs[n].type
        IN  [key |-> key,
             artifacts |->
                <<[DeserializeArtifact(type) EXCEPT
                     !.uri = ArtifactUri(self, key, type, execution_id),
                     !.name = ArtifactName(self, key)]>>]]

\* a variant: the output locations are created while they are generated
generate_output_artifacts_MakesDirs(fs, self, execution_id) ==
    Returned(OutputArtifacts(self, execution_id),
             make_output_dirs(fs, OutputArtifacts(self, execution_id), 0).fs, <<>>)

generate_output_artifacts(fs, self, execution_id) ==
    Returned(OutputArtifacts(self, execution_id), fs, <<>>)

\* a variant: the directory is made with a call that fails when it exists
get_executor_output_uri_Mkdir(fs, self, execution_id, fail) ==
    LET execution_dir == PathJoin(<<self.node_dir, EXECUTION, Str(execution_id)>>)
        mk == StorageCall("makedirs", fs, execution_dir, <<>>, fail)
    IN  IF IsDir(fs, execution_dir)
        THEN Raised(StorageError("makedirs", execution_dir, "conflict"), fs, mk.calls)
        ELSE IF mk.error /= NoError THEN Raised(mk.error, mk.fs, mk.calls)
        ELSE Returned(PathJoin(<<execution_dir, EXECUTION_OUTPUT_FILE>>), mk.fs, mk.calls)

get_executor_output_uri(fs, self, execution_id, fail) ==
    LET execution_dir == PathJoin(<<self.node_dir, EXECUTION, Str(execution_id)>>)
        mk == StorageCall("makedirs", fs, execution_dir, <<>>, fail)
    IN  IF mk.error /= NoError THEN Raised(mk.error, mk.fs, mk.calls)
        ELSE Returned(PathJoin(<<execution_dir, EXECUTION_OUTPUT_FILE>>), mk.fs, mk.calls)

\* a variant: the path is returned and the directory is not made
get_stateful_working_directory_NoMakedirs(fs, self, fail) ==
    Returned(PathJoin(<<self.node_dir, self.pipeline_run_id, STATEFUL_WORKING_DIR>>),
             fs, <<>>)

get_stateful_working_directory(fs, self, fail) ==
    LET stateful_working_dir ==
            PathJoin(<<self.node_dir, self.pipeline_run_id, STATEFUL_WORKING_DIR>>)
        mk == StorageCall("makedirs", fs, stateful_working_dir, <<>>, fail)
    IN  IF mk.error /= NoError THEN Raised(mk.error, mk.fs, mk.calls)
        ELSE Returned(stateful_working_dir, mk.fs, mk.calls)

----------------------------------------------------------------------------
(* Placeholder expressions (tfx/dsl/placeholder/placeholder.py).            *)
(*                                                                         *)
(* A PlaceholderExpression message is a record with the one field that is  *)
(* set: placeholder (a leaf), value (a literal) or operator, and an        *)
(* operator is a record with the one operator that is set.  A Placeholder  *)
(* object is known by its handle; an operand that is a Placeholder is the  *)
(* handle of that object, not a copy of it.                                *)

INPUT_ARTIFACT == "INPUT_ARTIFACT"

OUTPUT_ARTIFACT == "OUTPUT_ARTIFACT"

EXEC_PROPERTY == "EXEC_PROPERTY"

\* expression_pb.placeholder.type = type; expression_pb.placeholder.key = key
LeafExpression(type, key) == [placeholder |-> [type |-> type, key |-> key]]

\* other_expression_pb.value.string_value = string
StringExpression(string) == [value |-> [string_value |-> string]]

\* sub_expression_pb.HasField('operator') and
\* sub_expression_pb.operator.HasField('concat_op')
HasConcatOp(expression_pb) ==
    /\ "operator" \in DOMAIN expression_pb
    /\ "concat_op" \in DOMAIN expression_pb.operator

\* the operators, as the objects the operator list of a Placeholder holds
ArtifactUriOperator(split) == [class |-> "_ArtifactUriOperator", split |-> split]

ArtifactValueOperator == [class |-> "_ArtifactValueOperator"]

IndexOperator(index) == [class |-> "_IndexOperator", index |-> index]

\* other is a str, [str |-> s], or a Placeholder, [handle |-> h]
ConcatOperator(other) == [class |-> "_ConcatOperator", other |-> other]

ProtoOperator(proto_field_path) ==
    [class |-> "_ProtoOperator", proto_field_path |-> proto_field_path]

\* _ProtoOperator.append_field_path
append_field_path(self, extra_path) ==
    [self EXCEPT !.proto_field_path = @ \o <<".">> \o extra_path]

IsPlaceholder(other) == "handle" \in DOMAIN other

\* Placeholder.__init__, with the class of the object
Placeholder(class, placeholder_type, key) ==
    [class |-> class, type |-> placeholder_type, key |-> key, operators |-> <<>>]

\* what an encode() call ends with: the expression it returns or the error
\* it raises, and the Placeholder objects as the call leaves them
Encoded(expression_pb, hs) == [error |-> "", ret |-> expression_pb, handles |-> hs]

RecursionError(hs) ==
    [error |-> "RecursionError", ret |-> [raised |-> "RecursionError"], handles |-> hs]

\* _ArtifactUriOperator.encode
ArtifactUriEncode(self, sub_expression_pb) ==
    [operator |-> [artifact_uri_op |->
        [expression |-> sub_expression_pb, split |-> self.split]]]

\* _ArtifactValueOperator.encode
ArtifactValueEncode(self, sub_expression_pb) ==
    [operator |-> [artifact_value_op |-> [expression |-> sub_expression_pb]]]

\* _IndexOperator.encode
IndexEncode(self, sub_expression_pb) ==
    [operator |-> [index_op |->
        [expression |-> sub_expression_pb, index |-> self.index]]]

\* _ProtoOperator.encode
ProtoEncode(self, sub_expression_pb) ==
    [operator |-> [proto_op |->
        [expression |-> sub_expression_pb,
         proto_field_path |-> self.proto_field_path]]]

\* a variant: a concat operator is never combined with the one before it
ConcatCombine_Nests(sub_expression_pb, other_expression_pb) ==
    [operator |-> [concat_op |->
        [expressions |-> <<sub_expression_pb, other_expression_pb>>]]]

\* _ConcatOperator.encode, once the other expression is resolved
ConcatCombine(sub_expression_pb, other_expression_pb) ==
    IF HasConcatOp(sub_expression_pb)
    THEN [operator |-> [concat_op |->
            [expressions |->
                Append(sub_expression_pb.operator.concat_op.expressions,
                       other_expression_pb)]]]
    ELSE [operator |-> [concat_op |->
            [expressions |-> <<sub_expression_pb, other_expression_pb>>]]]

RECURSIVE PlaceholderEncode(_, _, _)
RECURSIVE EncodeOperators(_, _, _, _, _)

\* _ConcatOperator.encode: an operand that is a Placeholder is encoded now,
\* one call deeper
ConcatEncode(hs, self, sub_expression_pb, depth) ==
    IF IsPlaceholder(self.other)
    THEN LET other == PlaceholderEncode(hs, self.other.handle, depth + 1)
         IN  IF other.error /= "" THEN other
             ELSE Encoded(ConcatCombine(sub_expression_pb, other.ret), other.handles)
    ELSE Encoded(ConcatCombine(sub_expression_pb, StringExpression(self.other.str)), hs)

\* op.encode(expression_pb), by the class of op
OperatorEncode(hs, op, sub_expression_pb, depth) ==
    CASE op.class = "_ArtifactUriOperator" ->
            Encoded(ArtifactUriEncode(op, sub_expression_pb), hs)
      [] op.class = "_ArtifactValueOperator" ->
            Encoded(ArtifactValueEncode(op, sub_expression_pb), hs)
      [] op.class = "_IndexOperator" ->
            Encoded(IndexEncode(op, sub_expression_pb), hs)
      [] op.class = "_ProtoOperator" ->
            Encoded(ProtoEncode(op, sub_expression_pb), hs)
      [] op.class = "_ConcatOperator" ->
            ConcatEncode(hs, op, sub_expression_pb, depth)

\* a variant: the operators are applied from the last attached to the first
EncodeOperators_Reversed(hs, h, n, expression_pb, depth) ==
    IF n > Len(hs[h].operators) THEN Encoded(expression_pb, hs)
    ELSE LET op == hs[h].operators[Len(hs[h].operators) - n + 1]
             step == OperatorEncode(hs, op, expression_pb, depth)
         IN  IF step.error /= "" THEN step
             ELSE EncodeOperators(step.handles, h, n + 1, step.ret, depth)

\* for op in self._operators: expression_pb = op.encode(expression_pb),
\* from the n-th operator of the list as it is then
EncodeOperators(hs, h, n, expression_pb, depth) ==
    IF n > Len(hs[h].operators) THEN Encoded(expression_pb, hs)
    ELSE LET step == OperatorEncode(hs, hs[h].operators[n], expression_pb, depth)
         IN  IF step.error /= "" THEN step
             ELSE EncodeOperators(step.handles, h, n + 1, step.ret, depth)

\* a variant: encode() takes the operators off the list as it applies them
PlaceholderEncode_Consumes(hs, h, depth) ==
    IF depth > RecursionLimit THEN RecursionError(hs)
    ELSE LET out == EncodeOperators(hs, h, 1, LeafExpression(hs[h].type, hs[h].key), depth)
         IN  IF out.error /= "" THEN out
             ELSE [out EXCEPT !.handles = [out.handles EXCEPT ![h].operators = <<>>]]

\* Placeholder.encode of the object with handle h; a call nested deeper than
\* the interpreter's recursion limit raises RecursionError
PlaceholderEncode(hs, h, depth) ==
    IF depth > RecursionLimit THEN RecursionError(hs)
    ELSE EncodeOperators(hs, h, 1, LeafExpression(hs[h].type, hs[h].key), depth)

\* the fluent calls: each changes the operator list of the object and
\* returns the object itself

\* Placeholder.__getitem__
getitem(self, key) == [self EXCEPT !.operators = Append(@, IndexOperator(key))]

\* Placeholder.__add__
add(self, other) == [self EXCEPT !.operators = Append(@, ConcatOperator(other))]

\* ArtifactPlaceholder.uri
uri(self) == [self EXCEPT !.operators = Append(@, ArtifactUriOperator(<<>>))]

\* ArtifactPlaceholder.split_uri
split_uri(self, split) ==
    [self EXCEPT !.operators = Append(@, ArtifactUriOperator(split))]

\* ArtifactPlaceholder.value
value(self) == [self EXCEPT !.operators = Append(@, ArtifactValueOperator)]

\* a variant: every field access attaches an operator of its own
getattr_Attaches(self, field_name) ==
    [self EXCEPT !.operators = Append(@, ProtoOperator(field_name))]

\* ExecPropertyPlaceholder.__getattr__
getattr(self, field_name) ==
    IF /\ self.operators /= <<>>
       /\ self.operators[Len(self.operators)].class = "_ProtoOperator"
    THEN [self EXCEPT !.operators[Len(self.operators)] = append_field_path(@, field_name)]
    ELSE [self EXCEPT !.operators = Append(@, ProtoOperator(field_name))]

----------------------------------------------------------------------------
(* Compilation of an authored pipeline (tfx/dsl/compiler): the authored      *)
(* pipeline is the sequence of its nodes in declaration order; a node has  *)
(* an id, input channel bindings, each to an output key of a producer node *)
(* or to an external source, declared output keys and execution            *)
(* properties.                                                             *)

\* a channel binding to output key of node producer
Binding(producer, key) == [source |-> "node", producer |-> producer, key |-> key]

\* a channel binding to an external source
ExternalBinding == [source |-> "external", producer |-> "", key |-> ""]

AuthoredNode(id, inputs, outputs, exec_properties) ==
    [id |-> id, inputs |-> inputs, outputs |-> outputs,
     exec_properties |-> exec_properties]

\* the kinds of execution property values the compiler translates
SupportedValues == {"literal", "runtime_parameter", "placeholder"}

\* a variant: a failed compilation hands back the nodes compiled so far
CompilationError_Partial(node_id, violation, compiled_nodes) ==
    [status |-> "CompilationError", node |-> node_id, violation |-> violation,
     ir |-> [nodes |-> compiled_nodes]]

\* compile fails: the error names the node and the violation; no IR is
\* returned, the nodes compiled so far are dropped
CompilationError(node_id, violation, compiled_nodes) ==
    [status |-> "CompilationError", node |-> node_id, violation |-> violation]

CompiledPipeline(compiled_nodes) ==
    [status |-> "compiled", ir |-> [nodes |-> compiled_nodes]]

\* the first violation of the n-th node of the pipeline, "" when it has none:
\* its channel bindings are translated first, then its execution properties
RECURSIVE BindingViolation(_, _, _)
BindingViolation(pipeline, n, b) ==
    IF b > Len(pipeline[n].inputs) THEN ""
    ELSE LET binding == pipeline[n].inputs[b]
             earlier == {m \in 1 .. n - 1 : pipeline[m].id = binding.producer}
         IN  IF binding.source /= "node" THEN BindingViolation(pipeline, n, b + 1)
             ELSE IF earlier = {} THEN "unknown channel reference"
             ELSE IF \A m \in earlier : binding.key \notin pipeline[m].outputs
                  THEN "missing output key"
             ELSE BindingViolation(pipeline, n, b + 1)

PropertyViolation(node) ==
    IF \E p \in DOMAIN node.exec_properties : node.exec_properties[p] \notin SupportedValues
    THEN "unsupported execution-property value type"
    ELSE ""

NodeViolation(pipeline, n) ==
    IF BindingViolation(pipeline, n, 1) /= "" THEN BindingViolation(pipeline, n, 1)
    ELSE PropertyViolation(pipeline[n])

\* the compiled node: its identity, the input specs with producer and key,
\* the upstream node ids the bindings imply, the outputs and the properties
CompileNode(node) ==
    [id |-> node.id,
     inputs |-> node.inputs,
     upstream |-> {node.inputs[b].producer :
                     b \in {c \in DOMAIN node.inputs : node.inputs[c].source = "node"}},
     outputs |-> node.outputs,
     exec_properties |-> node.exec_properties]

\* a variant: a node is placed before the nodes compiled so far
RECURSIVE CompileFrom(_, _, _)
CompileFrom_Prepends(pipeline, n, compiled_nodes) ==
    IF n > Len(pipeline) THEN CompiledPipeline(compiled_nodes)
    ELSE IF NodeViolation(pipeline, n) /= ""
         THEN CompilationError(pipeline[n].id, NodeViolation(pipeline, n), compiled_nodes)
    ELSE CompileFrom(pipeline, n + 1, <<CompileNode(pipeline[n])>> \o compiled_nodes)

\* the nodes are compiled in declaration order, from the n-th on
CompileFrom(pipeline, n, compiled_nodes) ==
    IF n > Len(pipeline) THEN CompiledPipeline(compiled_nodes)
    ELSE IF NodeViolation(pipeline, n) /= ""
         THEN CompilationError(pipeline[n].id, NodeViolation(pipeline, n), compiled_nodes)
    ELSE CompileFrom(pipeline, n + 1, Append(compiled_nodes, CompileNode(pipeline[n])))

\* compile(authoredPipeline)
compile(pipeline) == CompileFrom(pipeline, 1, <<>>)

----------------------------------------------------------------------------
(* Configurations *)

PipelineRoot == <<"/", "r">>

\* a node id with separators in it
NestedNodeId == <<"a", "/", "k", "/">> \o Str(FirstExecutionId)

Item(key, type) == [key |-> key, type |-> type]

\* outputs maps with a value artifact and a directory artifact, either first
OutputMaps ==
    {<<Item(<<"k">>, "Model"), Item(<<"v">>, "String")>>,
     <<Item(<<"k">>, "String"), Item(<<"v">>, "Model")>>}

IdChars == {"a", ":", "/"}

\* the non-empty strings over chars of length at most n
StringsOver(chars, n) == UNION {[1 .. m -> chars] : m \in 1 .. n}

IdStrings == StringsOver(IdChars, MaxIdLen)

NodeResolver(node_id, outputs) ==
    OutputsResolver(<<"p">>, PipelineRoot, <<"r", "1">>, node_id, outputs)

NoCall == [op |-> "none", inst |-> 0, execution_id |-> 0,
           error |-> NoError, ret |-> <<>>, calls |-> <<>>, changed |-> FALSE]

NoResults == [e \in {} |-> <<>>]

----------------------------------------------------------------------------
(* Calls *)

Storage == [dirs |-> dirs, files |-> files]

Locations(fs) == fs.dirs \cup DOMAIN fs.files

\* the locations that exist in exactly one of the two storages
Changed(before, after) ==
    (Locations(after) \ Locations(before)) \cup (Locations(before) \ Locations(after))

\* a call of instance i ended with outcome out
Call(op, i, execution_id, out) ==
    /\ dirs' = out.fs.dirs
    /\ files' = out.fs.files
    /\ last' = [op |-> op, inst |-> i, execution_id |-> execution_id,
                error |-> out.error, ret |-> out.ret, calls |-> out.calls,
                changed |-> out.fs /= Storage]
    /\ results' = [j \in DOMAIN results |->
                      IF j = i /\ op = "generate_output_artifacts" /\ out.error = NoError
                      THEN [e \in (DOMAIN results[j]) \cup {execution_id} |->
                                IF e = execution_id THEN out.ret ELSE results[j][e]]
                      ELSE results[j]]
    /\ touched' = [j \in DOMAIN touched |->
                      IF j = i THEN touched[j] \cup Changed(Storage, out.fs)
                      ELSE touched[j]]
    /\ UNCHANGED <<resolvers, faulty, placeholder_vars, compiler_vars>>

\* which of the n storage calls of a handler the storage layer refuses (0: none)
Faults(n) == IF faulty THEN 0 .. n ELSE {0}

GenerateOutputArtifacts(i, e) ==
    Call("generate_output_artifacts", i, e,
         generate_output_artifacts(Storage, resolvers[i], e))

GetExecutorOutputUri(i, e) ==
    \E fail \in Faults(1) :
        Call("get_executor_output_uri", i, e,
             get_executor_output_uri(Storage, resolvers[i], e, fail))

GetStatefulWorkingDirectory(i) ==
    \E fail \in Faults(1) :
        Call("get_stateful_working_directory", i, 0,
             get_stateful_working_directory(Storage, resolvers[i], fail))

\* make_output_dirs on the outputs instance i generates for execution e
MakeOutputDirs(i, e) ==
    \E fail \in Faults(2 * Len(resolvers[i].outputs)) :
        Call("make_output_dirs", i, e,
             make_output_dirs(Storage, OutputArtifacts(resolvers[i], e), fail))

\* remove_output_dirs on the outputs instance i generates for execution e
RemoveOutputDirs(i, e) ==
    \E fail \in Faults(Len(resolvers[i].outputs)) :
        Call("remove_output_dirs", i, e,
             remove_output_dirs(Storage, OutputArtifacts(resolvers[i], e), fail))

\* the executor of execution e writes the payload of a value artifact it was given
ExecutorWrite(i, e) ==
    \E artifact \in {a \in Range(ArtifactsOf(OutputArtifacts(resolvers[i], e))) :
                        IsValueArtifact(a) /\ IsFile(Storage, a.uri)} :
        Call("executor_write", i, e,
             Returned(artifact.uri, FsWrite(Storage, artifact.uri, "data").fs, <<>>))

\* no call was made yet; the history of the instances of kept is kept
NoHistory(kept_results, kept_touched) ==
    /\ last = NoCall
    /\ results = [i \in kept_results |-> NoResults]
    /\ touched = [i \in kept_touched |-> {}]

\* the storage before the first call: empty, or holding the pipeline root
StorageInit(roots, refuses) ==
    /\ \E root \in roots :
          /\ dirs = Prefixes(Components(root))
          /\ files = NoFiles
    /\ faulty = refuses

\* the last call was no encode()
NoEncode == [handle |-> 0, error |-> "", ret |-> [none |-> TRUE], before |-> <<>>]

\* no placeholder was created
NoPlaceholders ==
    /\ handles = <<>>
    /\ journal = <<>>
    /\ encoded = NoEncode

\* no pipeline was given to the compiler
NoPipeline ==
    /\ authored = <<>>
    /\ compiled = [status |-> "none"]

----------------------------------------------------------------------------
(* Spec: one resolver and the storage behind it *)

Init ==
    /\ \E outputs \in OutputMaps : resolvers = [i \in {1} |-> NodeResolver(<<"a">>, outputs)]
    /\ StorageInit({<<>>, PipelineRoot}, TRUE)
    /\ NoHistory({}, {})
    /\ NoPlaceholders
    /\ NoPipeline

Next ==
    \/ \E i \in DOMAIN resolvers, e \in ExecutionIds : GenerateOutputArtifacts(i, e)
    \/ \E i \in DOMAIN resolvers, e \in ExecutionIds : GetExecutorOutputUri(i, e)
    \/ \E i \in DOMAIN resolvers : GetStatefulWorkingDirectory(i)
    \/ \E i \in DOMAIN resolvers, e \in ExecutionIds : MakeOutputDirs(i, e)
    \/ \E i \in DOMAIN resolvers, e \in ExecutionIds : RemoveOutputDirs(i, e)
    \/ \E i \in DOMAIN resolvers, e \in ExecutionIds : ExecutorWrite(i, e)

Spec == Init /\ [][Next]_vars

----------------------------------------------------------------------------
(* SpecGen: one resolver over opaque ids; generate_output_artifacts is      *)
(* called for several executions and what it returns is kept               *)

PipelineRoots == {PipelineRoot, PipelineRoot \o <<"/">>}

GenOutputMaps ==
    OutputMaps \cup {<<Item(key, type)>> : key \in IdStrings, type \in ArtifactTypes}

InitGen ==
    /\ \E pipeline_id \in {<<"p">>, <<"p", ":", "q">>}, root \in PipelineRoots,
          node_id \in IdStrings, outputs \in GenOutputMaps :
            resolvers = [i \in {1} |->
                OutputsResolver(pipeline_id, root, <<"r", "1">>, node_id, outputs)]
    /\ StorageInit({PipelineRoot}, FALSE)
    /\ NoHistory({1}, {})
    /\ NoPlaceholders
    /\ NoPipeline

NextGen == \E i \in DOMAIN resolvers, e \in AttemptIds : GenerateOutputArtifacts(i, e)

SpecGen == InitGen /\ [][NextGen]_vars

----------------------------------------------------------------------------
(* SpecNames: two resolvers whose pipeline id, run id, node id and key are  *)
(* opaque strings                                                          *)

NameStrings == {<<"a">>, <<"b">>, <<"a", ":", "a">>}

NameResolvers ==
    {OutputsResolver(pipeline_id, PipelineRoot, run_id, node_id, <<Item(key, "Model")>>) :
        pipeline_id \in NameStrings, run_id \in NameStrings,
        node_id \in {<<"a">>, <<"b">>}, key \in {<<"k">>, <<"v">>}}

InitNames ==
    /\ resolvers \in [{1, 2} -> NameResolvers]
    /\ StorageInit({PipelineRoot}, FALSE)
    /\ NoHistory({1, 2}, {})
    /\ NoPlaceholders
    /\ NoPipeline

NextNames == \E i \in DOMAIN resolvers : GenerateOutputArtifacts(i, FirstExecutionId)

SpecNames == InitNames /\ [][NextNames]_vars

----------------------------------------------------------------------------
(* SpecNodes: two resolvers of one run with distinct node ids over a        *)
(* pipeline root that exists; what each creates or removes is kept         *)

NodePairs == {<<<<"a">>, <<"b">>>>, <<<<"a">>, NestedNodeId>>, <<<<"b">>, NestedNodeId>>}

InitNodes ==
    /\ \E pair \in NodePairs, outputs \in {<<Item(<<"k">>, "Model"), Item(<<"v">>, "String")>>} :
          resolvers = [i \in {1, 2} |-> NodeResolver(pair[i], outputs)]
    /\ StorageInit({PipelineRoot}, FALSE)
    /\ NoHistory({}, {1, 2})
    /\ NoPlaceholders
    /\ NoPipeline

NextNodes ==
    \/ \E i \in DOMAIN resolvers, e \in ExecutionIds : GenerateOutputArtifacts(i, e)
    \/ \E i \in DOMAIN resolvers, e \in ExecutionIds : GetExecutorOutputUri(i, e)
    \/ \E i \in DOMAIN resolvers : GetStatefulWorkingDirectory(i)
    \/ \E i \in DOMAIN resolvers, e \in ExecutionIds : MakeOutputDirs(i, e)
    \/ \E i \in DOMAIN resolvers, e \in ExecutionIds : RemoveOutputDirs(i, e)

SpecNodes == InitNodes /\ [][NextNodes]_vars

----------------------------------------------------------------------------
(* SpecKeys: one resolver and the storage behind it, the output keys being  *)
(* any strings, the names the resolver itself uses included                *)

KeyOutputMaps ==
    {<<Item(EXECUTION, "Model"), Item(<<"v">>, "String")>>,
     <<Item(<<"k">>, "Model"), Item(EXECUTION, "String")>>,
     <<Item(<<"k">>, "Model"), Item(<<"r", "1">>, "String")>>}

InitKeys ==
    /\ \E outputs \in KeyOutputMaps : resolvers = [i \in {1} |-> NodeResolver(<<"a">>, outputs)]
    /\ StorageInit({PipelineRoot}, FALSE)
    /\ NoHistory({}, {})
    /\ NoPlaceholders
    /\ NoPipeline

SpecKeys == InitKeys /\ [][Next]_vars

----------------------------------------------------------------------------
(* SpecPlaceholders: placeholder handles are created, composed by fluent    *)
(* calls and encoded                                                       *)

outputs_vars == <<resolvers, dirs, files, faulty, last, results, touched>>

\* the handles there can be
HandleIds == {1, 2}

PlaceholderKeys == {<<"k">>}

FieldNames == {<<"f">>, <<"g">>}

SplitNames == {<<"t">>}

Indices == {0}

ConcatStrings == {<<"s">>}

\* the fluent calls made so far
RECURSIVE Operations(_)
Operations(j) == IF j = <<>> THEN 0 ELSE Len(Head(j)) - 1 + Operations(Tail(j))

\* input(key), output(key), exec_property(key): a new Placeholder object
Create(fn, object) ==
    /\ Len(handles) + 1 \in HandleIds
    /\ handles' = Append(handles, object)
    /\ journal' = Append(journal, <<[fn |-> fn, arg |-> object.key]>>)
    /\ encoded' = NoEncode
    /\ UNCHANGED <<outputs_vars, compiler_vars>>

Input(key) == Create("input", Placeholder("ArtifactPlaceholder", INPUT_ARTIFACT, key))

Output(key) == Create("output", Placeholder("ArtifactPlaceholder", OUTPUT_ARTIFACT, key))

ExecProperty(key) ==
    Create("exec_property", Placeholder("ExecPropertyPlaceholder", EXEC_PROPERTY, key))

\* a fluent call on the object with handle h left it as object
Fluent(h, fn, arg, object) ==
    /\ Operations(journal) < MaxOperations
    /\ handles' = [handles EXCEPT ![h] = object]
    /\ journal' = [journal EXCEPT ![h] = Append(@, [fn |-> fn, arg |-> arg])]
    /\ encoded' = NoEncode
    /\ UNCHANGED <<outputs_vars, compiler_vars>>

GetItem(h, index) == Fluent(h, "getitem", index, getitem(handles[h], index))

\* p + 's' and p + q
Add(h, other) == Fluent(h, "add", other, add(handles[h], other))

Uri(h) ==
    /\ handles[h].class = "ArtifactPlaceholder"
    /\ Fluent(h, "uri", <<>>, uri(handles[h]))

SplitUri(h, split) ==
    /\ handles[h].class = "ArtifactPlaceholder"
    /\ Fluent(h, "split_uri", split, split_uri(handles[h], split))

Value(h) ==
    /\ handles[h].class = "ArtifactPlaceholder"
    /\ Fluent(h, "value", <<>>, value(handles[h]))

\* p.field_name, of a name that is no attribute of the object
GetAttr(h, field_name) ==
    /\ handles[h].class = "ExecPropertyPlaceholder"
    /\ Fluent(h, "getattr", field_name, getattr(handles[h], field_name))

\* p.encode(): what it returned or raised, and the objects before the call
Encode(h) ==
    LET out == PlaceholderEncode(handles, h, 0)
    IN  /\ handles' = out.handles
        /\ encoded' = [handle |-> h, error |-> out.error, ret |-> out.ret,
                       before |-> handles]
        /\ UNCHANGED <<journal, outputs_vars, compiler_vars>>

Operands == {[str |-> s] : s \in ConcatStrings} \cup {[handle |-> h] : h \in DOMAIN handles}

NoOutputs ==
    /\ resolvers = <<>>
    /\ StorageInit({<<>>}, FALSE)
    /\ NoHistory({}, {})

InitPlaceholders ==
    /\ NoPlaceholders
    /\ NoOutputs
    /\ NoPipeline

NextPlaceholders ==
    \/ \E key \in PlaceholderKeys : Input(key)
    \/ \E key \in PlaceholderKeys : Output(key)
    \/ \E key \in PlaceholderKeys : ExecProperty(key)
    \/ \E h \in DOMAIN handles, index \in Indices : GetItem(h, index)
    \/ \E h \in DOMAIN handles, other \in Operands : Add(h, other)
    \/ \E h \in DOMAIN handles : Uri(h)
    \/ \E h \in DOMAIN handles, split \in SplitNames : SplitUri(h, split)
    \/ \E h \in DOMAIN handles : Value(h)
    \/ \E h \in DOMAIN handles, field_name \in FieldNames : GetAttr(h, field_name)
    \/ \E h \in DOMAIN handles : Encode(h)

SpecPlaceholders == InitPlaceholders /\ [][NextPlaceholders]_vars

----------------------------------------------------------------------------
(* SpecCompiler: an authored pipeline is compiled                           *)

NodeIds == {"A", "B", "C"}

OutputKeys == {"x", "y"}

\* a node has no input, an external input or one input bound to a key of a node
InputBindings ==
    {<<>>, <<ExternalBinding>>}
        \cup {<<Binding(producer, key)>> : producer \in {"A", "B"}, key \in OutputKeys}

ExecProperties == {<<"literal", "runtime_parameter">>, <<"literal", "raw_object">>}

AuthoredNodes ==
    {AuthoredNode(id, inputs, outputs, exec_properties) :
        id \in NodeIds, inputs \in InputBindings,
        outputs \in {{"x"}, OutputKeys}, exec_properties \in ExecProperties}

\* the pipelines of at most MaxNodes nodes, the ids of the nodes unique
AuthoredPipelines ==
    {pipeline \in UNION {[1 .. n -> AuthoredNodes] : n \in 0 .. MaxNodes} :
        \A m, n \in DOMAIN pipeline : m /= n => pipeline[m].id /= pipeline[n].id}

InitCompiler ==
    /\ authored \in AuthoredPipelines
    /\ compiled = [status |-> "none"]
    /\ NoPlaceholders
    /\ NoOutputs

\* compile(authored) returns or raises
Compile ==
    /\ compiled.status = "none"
    /\ compiled' = compile(authored)
    /\ UNCHANGED <<authored, outputs_vars, placeholder_vars>>

NextCompiler == Compile

SpecCompiler == InitCompiler /\ [][NextCompiler]_vars

----------------------------------------------------------------------------
(* Properties of generate_output_artifacts *)

\* the items of an output dict under a key
Lookup(output_dict, key) == {item \in Range(output_dict) : item.key = key}

\* C1: for one resolver and two execution ids e1 /= e2, the artifacts that
\* generate_output_artifacts returns under each declared output key have the
\* same name and different uris (which also are different storage locations).
C1_SameNameDifferentUri ==
    \A i \in DOMAIN results : \A e1, e2 \in DOMAIN results[i] :
        e1 /= e2 =>
            \A key \in DeclaredKeys(resolvers[i]) :
                /\ Lookup(results[i][e1], key) /= {}
                /\ Lookup(results[i][e2], key) /= {}
                /\ \A x \in Lookup(results[i][e1], key), y \in Lookup(results[i][e2], key) :
                      \A a \in Range(x.artifacts), b \in Range(y.artifacts) :
                          /\ a.name = b.name
                          /\ a.uri /= b.uri
                          /\ Components(a.uri) /= Components(b.uri)

\* two executions of one resolver with a value artifact were generated
C1_Witness ==
    \E i \in DOMAIN results : \E e1, e2 \in DOMAIN results[i] :
        /\ e1 /= e2
        /\ \E item \in Range(results[i][e1]) : IsValueArtifact(item.artifacts[1])

\* the tuple an artifact name is derived from
NameTuple(self, key) == <<self.pipeline_id, self.pipeline_run_id, self.node_id, key>>

\* C2: artifact names are collision-free: two tuples (pipeline_id,
\* pipeline_run_id, node_id, output_key) that differ in a component never get
\* the same name from generate_output_artifacts.
C2_NamesCollisionFree ==
    \A i, j \in DOMAIN results : \A ei \in DOMAIN results[i], ej \in DOMAIN results[j] :
        \A x \in Range(results[i][ei]), y \in Range(results[j][ej]) :
            NameTuple(resolvers[i], x.key) /= NameTuple(resolvers[j], y.key) =>
                \A a \in Range(x.artifacts), b \in Range(y.artifacts) : a.name /= b.name

\* C3: generate_output_artifacts(execution_id) returns exactly the declared
\* keys, each with one artifact whose name is
\* pipeline_id:run_id:node_id:key:0 and whose uri is join(pipeline_root,
\* node_id, key, str(execution_id)), with 'value' appended if and only if the
\* declared type is a value artifact.
C3_GeneratedArtifacts ==
    \A i \in DOMAIN results : \A e \in DOMAIN results[i] :
        LET self == resolvers[i]
            output_dict == results[i][e]
        IN  /\ {item.key : item \in Range(output_dict)} = DeclaredKeys(self)
            /\ Len(output_dict) = Cardinality(DeclaredKeys(self))
            /\ \A declared \in Range(self.outputs) :
                  \A item \in Lookup(output_dict, declared.key) :
                      /\ Len(item.artifacts) = 1
                      /\ item.artifacts[1].type = declared.type
                      /\ item.artifacts[1].name =
                            self.pipeline_id \o <<":">> \o self.pipeline_run_id \o <<":">>
                                \o self.node_id \o <<":">> \o declared.key \o <<":", "0">>
                      /\ item.artifacts[1].uri =
                            IF declared.type \in ValueArtifactTypes
                            THEN PathJoin(<<self.pipeline_root, self.node_id, declared.key,
                                            Str(e), <<"v", "a", "l", "u", "e">>>>)
                            ELSE PathJoin(<<self.pipeline_root, self.node_id, declared.key,
                                            Str(e)>>)

\* outputs with a value artifact and a directory artifact were generated for
\* an execution id of two digits
C3_Witness ==
    \E i \in DOMAIN results : \E e \in DOMAIN results[i] :
        /\ e >= 10
        /\ \E x, y \in Range(results[i][e]) :
              IsValueArtifact(x.artifacts[1]) /\ ~IsValueArtifact(y.artifacts[1])

----------------------------------------------------------------------------
(* Properties of the calls that use storage *)

Parent(loc) == SubSeq(loc, 1, Len(loc) - 1)

\* something exists at the path or under it
ExistsUnder(fs, path) == \E loc \in Locations(fs) : IsPrefix(Components(path), loc)

\* the artifacts of the output dict the last call was about
LastArtifacts == ArtifactsOf(OutputArtifacts(resolvers[last.inst], last.execution_id))

\* C4: generate_output_artifacts has no storage side effect: it makes no
\* storage call and storage is the same before and after it.
C4_GenerateLeavesStorage ==
    last.op = "generate_output_artifacts" => ~last.changed /\ last.calls = <<>>

\* outputs were generated while storage held files and directories
C4_Witness ==
    /\ last.op = "generate_output_artifacts"
    /\ last.ret /= <<>>
    /\ files /= NoFiles

\* C5: get_stateful_working_directory returns, whenever it returns, the one
\* path join(node_dir, run_id, 'stateful_working_dir'), which depends on no
\* execution id, and the directory exists after the call.
C5_StatefulWorkingDirectory ==
    (last.op = "get_stateful_working_directory" /\ last.error = NoError) =>
        LET self == resolvers[last.inst]
        IN  /\ last.ret = PathJoin(<<self.pipeline_root, self.node_id,
                                     self.pipeline_run_id, STATEFUL_WORKING_DIR>>)
            /\ IsDir(Storage, last.ret)

\* the directory was asked for again, after outputs of an execution were made
C5_Witness ==
    /\ last.op = "get_stateful_working_directory"
    /\ last.error = NoError
    /\ ~last.changed
    /\ files /= NoFiles

ExecutionDir(self, execution_id) ==
    PathJoin(<<self.pipeline_root, self.node_id, EXECUTION, Str(execution_id)>>)

\* C6: get_executor_output_uri(execution_id) returns join(node_dir,
\* 'execution', str(execution_id), 'executor_output.pb') and the directory of
\* the execution exists after it; called again with the same execution id it
\* succeeds (unless the storage layer refuses the call), returns the same path
\* and leaves storage as it is.
C6_ExecutorOutputUriIdempotent ==
    [][ /\ (last'.op = "get_executor_output_uri" /\ last'.error = NoError) =>
              LET self == resolvers[last'.inst]
                  execution_dir == ExecutionDir(self, last'.execution_id)
              IN  /\ last'.ret = PathJoin(<<execution_dir, EXECUTION_OUTPUT_FILE>>)
                  /\ IsDir([dirs |-> dirs', files |-> files'], execution_dir)
        /\ ( /\ last.op = "get_executor_output_uri"
             /\ last.error = NoError
             /\ last'.op = "get_executor_output_uri"
             /\ last'.inst = last.inst
             /\ last'.execution_id = last.execution_id
             /\ last'.error.why /= "unavailable" ) =>
                /\ last'.error = NoError
                /\ last'.ret = last.ret
                /\ dirs' = dirs
                /\ files' = files ]_vars

\* the uri of an execution was asked for when its directory was there already
C6_Witness ==
    /\ last.op = "get_executor_output_uri"
    /\ last.error = NoError
    /\ ~last.changed

\* C7: after make_output_dirs returns normally, the uri of every value
\* artifact of the output dict is a file with empty content in a directory
\* that exists, and the uri of every other artifact is a directory.
C7_MadeOutputsExist ==
    (last.op = "make_output_dirs" /\ last.error = NoError) =>
        \A artifact \in Range(LastArtifacts) :
            IF IsValueArtifact(artifact)
            THEN /\ IsFile(Storage, artifact.uri)
                 /\ files[Components(artifact.uri)] = ""
                 /\ Parent(Components(artifact.uri)) \in dirs
            ELSE IsDir(Storage, artifact.uri)

\* make_output_dirs returned normally on outputs all of which existed
C7_Witness ==
    /\ last.op = "make_output_dirs"
    /\ last.error = NoError
    /\ ~last.changed
    /\ \E artifact \in Range(LastArtifacts) : IsValueArtifact(artifact)

\* C8: after remove_output_dirs returns normally, nothing exists at or under
\* the uri of any artifact of the output dict: each was removed by one call,
\* a directory as a tree (rmtree) and a file as a single file (remove).
C8_RemovedOutputsGone ==
    (last.op = "remove_output_dirs" /\ last.error = NoError) =>
        /\ Len(last.calls) = Len(LastArtifacts)
        /\ \A n \in 1 .. Len(LastArtifacts) :
              /\ ~ExistsUnder(Storage, LastArtifacts[n].uri)
              /\ last.calls[n].path = LastArtifacts[n].uri
              /\ last.calls[n].error = NoError
              /\ last.calls[n].fn \in {"rmtree", "remove"}

\* remove_output_dirs returned normally after removing a tree and a file
C8_Witness ==
    /\ last.op = "remove_output_dirs"
    /\ last.error = NoError
    /\ \E n, m \in 1 .. Len(last.calls) :
          last.calls[n].fn = "rmtree" /\ last.calls[m].fn = "remove"

\* the storage calls make_output_dirs makes for one artifact
CallsFor(artifact) ==
    IF IsValueArtifact(artifact)
    THEN <<[fn |-> "makedirs", path |-> DirName(artifact.uri)],
           [fn |-> "open", path |-> artifact.uri]>>
    ELSE <<[fn |-> "makedirs", path |-> artifact.uri]>>

RECURSIVE CallsForAll(_)
CallsForAll(arts) ==
    IF arts = <<>> THEN <<>> ELSE CallsFor(Head(arts)) \o CallsForAll(Tail(arts))

\* the number of the artifacts of arts that the first n storage calls complete
RECURSIVE Completed(_, _)
Completed(arts, n) ==
    IF arts = <<>> \/ n < Len(CallsFor(Head(arts))) THEN 0
    ELSE 1 + Completed(Tail(arts), n - Len(CallsFor(Head(arts))))

\* C9: when a storage call fails while make_output_dirs processes an
\* artifact, the error of that call is the error of make_output_dirs, the
\* call is the last one made (no retry, no later artifact is processed, no
\* cleanup) and what was created for the artifacts before it is in place.
C9_FailureLeavesEarlierOutputs ==
    (last.op = "make_output_dirs" /\ last.error /= NoError) =>
        LET calls == last.calls
            expected == CallsForAll(LastArtifacts)
        IN  /\ Len(calls) \in 1 .. Len(expected)
            /\ \A n \in 1 .. Len(calls) :
                  /\ calls[n].fn = expected[n].fn
                  /\ calls[n].path = expected[n].path
                  /\ (calls[n].error /= NoError) <=> (n = Len(calls))
            /\ last.error = calls[Len(calls)].error
            /\ \A n \in 1 .. Completed(LastArtifacts, Len(calls) - 1) :
                  IF IsValueArtifact(LastArtifacts[n])
                  THEN /\ IsFile(Storage, LastArtifacts[n].uri)
                       /\ files[Components(LastArtifacts[n].uri)] = ""
                  ELSE IsDir(Storage, LastArtifacts[n].uri)

\* make_output_dirs failed at its second artifact and created the first
C9_Witness ==
    /\ last.op = "make_output_dirs"
    /\ last.error /= NoError
    /\ last.changed
    /\ Completed(LastArtifacts, Len(last.calls) - 1) = 1

\* C10: of two resolvers with distinct node ids, every location one creates
\* or removes lies in its own node directory join(pipeline_root, node_id) and
\* is never created or removed by the other.
C10_NodesKeepToTheirDirectories ==
    \A i \in DOMAIN touched : \A loc \in touched[i] :
        /\ IsPrefix(Components(PathJoin(<<resolvers[i].pipeline_root, resolvers[i].node_id>>)),
                    loc)
        /\ \A j \in DOMAIN touched : j /= i => loc \notin touched[j]
----------------------------------------------------------------------------
(* Properties of the layout of a node directory *)

\* the directory get_stateful_working_directory makes
StatefulWorkingDir(self) ==
    PathJoin(<<self.node_dir, self.pipeline_run_id, STATEFUL_WORKING_DIR>>)

\* neither path equals, contains or lies under the other
Apart(p, q) ==
    /\ ~IsPrefix(Components(p), Components(q))
    /\ ~IsPrefix(Components(q), Components(p))

\* C18: the uri of every output artifact is apart from the directory of
\* get_executor_output_uri of every execution and from the stateful working
\* directory, and make_output_dirs and remove_output_dirs create and remove
\* nothing at or under these directories.
C18_OutputsApartFromNodeDirectories ==
    [][LET self == resolvers[last'.inst]
           reserved == {ExecutionDir(self, e) : e \in ExecutionIds}
                          \cup {StatefulWorkingDir(self)}
       IN  /\ last'.op = "generate_output_artifacts" =>
                  \A artifact \in Range(ArtifactsOf(last'.ret)), d \in reserved :
                      Apart(artifact.uri, d)
           /\ last'.op \in {"make_output_dirs", "remove_output_dirs"} =>
                  \A loc \in Changed(Storage, Storage'), d \in reserved :
                      ~IsPrefix(Components(d), loc)]_vars

\* the per-execution output location of a key
OutputLocation(self, key, execution_id) ==
    PathJoin(<<self.node_dir, key, Str(execution_id)>>)

\* C20: make_output_dirs followed by remove_output_dirs on the outputs of an
\* execution is a round trip: when nothing exists at the per-execution
\* output location of any key before the two calls, nothing exists at or
\* under it after them, for value artifacts as for directory artifacts.
C20_MakeRemoveRoundTrip ==
    \A i \in DOMAIN resolvers, e \in ExecutionIds :
        LET self == resolvers[i]
            output_dict == OutputArtifacts(self, e)
            made == make_output_dirs(Storage, output_dict, 0)
            removed == remove_output_dirs(made.fs, output_dict, 0)
        IN  /\ \A key \in DeclaredKeys(self) :
                  ~ExistsUnder(Storage, OutputLocation(self, key, e))
            /\ made.error = NoError
            /\ removed.error = NoError
            => \A key \in DeclaredKeys(self) :
                  ~ExistsUnder(removed.fs, OutputLocation(self, key, e))

----------------------------------------------------------------------------
(* Properties of placeholder expressions *)

\* an encode() call has just returned an expression
EncodeReturned == encoded.handle /= 0 /\ encoded.error = ""

\* the calls made on the handle that was encoded
EncodedJournal == journal[encoded.handle]

\* C11: encode() is idempotent and free of side effects: an encode() call
\* leaves the operator list of every handle as it was, and an encode() call
\* that follows an encode() call of the same handle ends as that one did,
\* with a structurally identical expression.
C11_EncodeIdempotent ==
    [][encoded'.handle /= 0 =>
          /\ handles' = handles
          /\ encoded'.before = handles
          /\ encoded.handle = encoded'.handle =>
                encoded'.error = encoded.error /\ encoded'.ret = encoded.ret]_vars

\* encode() returned the concatenation of a handle with another handle
C11_Witness ==
    /\ EncodeReturned
    /\ HasConcatOp(encoded.ret)
    /\ \E n \in DOMAIN handles[encoded.handle].operators :
          LET op == handles[encoded.handle].operators[n]
          IN  op.class = "_ConcatOperator" /\ IsPlaceholder(op.other)
                /\ handles[op.other.handle].operators /= <<>>

\* the number of '+' calls the journal j ends with
RECURSIVE TrailingAdds(_)
TrailingAdds(j) ==
    IF Len(j) > 1 /\ j[Len(j)].fn = "add"
    THEN 1 + TrailingAdds(SubSeq(j, 1, Len(j) - 1))
    ELSE 0

\* what encode() returns for handle h when only its first n operators count
EncodingOfFirst(h, n) ==
    PlaceholderEncode([handles EXCEPT ![h].operators = SubSeq(@, 1, n)], h, 0).ret

\* the encoding of an operand of '+'
EncodingOfOperand(other) ==
    IF IsPlaceholder(other) THEN PlaceholderEncode(handles, other.handle, 0).ret
    ELSE StringExpression(other.str)

\* C12: a handle to which '+' was applied k >= 2 times in sequence encodes to
\* one Concat operator whose operands are the expression before the first
\* '+' and then the k operands in attachment order; the first operand is no
\* Concat.
C12_ConcatFlattens ==
    EncodeReturned /\ TrailingAdds(EncodedJournal) >= 2 =>
        LET h == encoded.handle
            k == TrailingAdds(EncodedJournal)
            first == Len(EncodedJournal) - k
            before == EncodingOfFirst(h, Len(handles[h].operators) - k)
        IN  /\ HasConcatOp(encoded.ret)
            /\ ~HasConcatOp(before)
            /\ encoded.ret.operator.concat_op.expressions =
                  <<before>> \o [n \in 1 .. k |->
                                    EncodingOfOperand(EncodedJournal[first + n].arg)]

\* encode() returned after two '+' that follow another operator
C12_Witness ==
    /\ EncodeReturned
    /\ TrailingAdds(EncodedJournal) >= 2
    /\ Len(EncodedJournal) > 1 + TrailingAdds(EncodedJournal)

\* the paths of the ProtoFieldPath operators of an expression, from the
\* leaf outward
RECURSIVE ProtoPaths(_)
ProtoPaths(expression_pb) ==
    IF "operator" \notin DOMAIN expression_pb THEN <<>>
    ELSE LET operator == expression_pb.operator
         IN  IF "concat_op" \in DOMAIN operator
                THEN ProtoPaths(operator.concat_op.expressions[1])
             ELSE IF "proto_op" \in DOMAIN operator
                THEN Append(ProtoPaths(operator.proto_op.expression),
                            operator.proto_op.proto_field_path)
             ELSE IF "index_op" \in DOMAIN operator
                THEN ProtoPaths(operator.index_op.expression)
             ELSE IF "artifact_uri_op" \in DOMAIN operator
                THEN ProtoPaths(operator.artifact_uri_op.expression)
             ELSE ProtoPaths(operator.artifact_value_op.expression)

\* the field names of the journal j, in access order
RECURSIVE FieldsOf(_)
FieldsOf(j) ==
    IF j = <<>> THEN <<>>
    ELSE IF Head(j).fn = "getattr" THEN <<Head(j).arg>> \o FieldsOf(Tail(j))
    ELSE FieldsOf(Tail(j))

\* the names dot-joined
RECURSIVE DotJoin(_)
DotJoin(names) ==
    IF Len(names) = 1 THEN names[1]
    ELSE DotJoin(SubSeq(names, 1, Len(names) - 1)) \o <<".">> \o names[Len(names)]

\* the field accesses of the journal j in runs: the names of the accesses
\* with no other call between them, dot-joined, run after run
RECURSIVE FieldRuns(_)
FieldRuns(j) ==
    IF j = <<>> THEN <<>>
    ELSE LET n == Len(j)
             runs == FieldRuns(SubSeq(j, 1, n - 1))
         IN  IF j[n].fn /= "getattr" THEN runs
             ELSE IF n > 1 /\ j[n - 1].fn = "getattr"
                  THEN [runs EXCEPT ![Len(runs)] = @ \o <<".">> \o j[n].arg]
                  ELSE Append(runs, j[n].arg)

\* C13 as claimed: a handle on which several fields were accessed encodes to
\* one ProtoFieldPath operator whose path is the names of all the accesses
\* dot-joined in access order, whatever was attached between the accesses.
C13_OneFieldPath ==
    EncodeReturned /\ Len(FieldsOf(EncodedJournal)) >= 2 =>
        ProtoPaths(encoded.ret) = <<DotJoin(FieldsOf(EncodedJournal))>>

\* C13 as amended: the field accesses with no other operator attached
\* between them accumulate into one ProtoFieldPath operator whose path is
\* their names dot-joined in access order; a field access that follows
\* another operator starts a new ProtoFieldPath operator, which wraps the
\* expression built so far.
C13_FieldPathPerRun ==
    EncodeReturned => ProtoPaths(encoded.ret) = FieldRuns(EncodedJournal)

\* encode() returned after two field accesses in a row
C13_Witness ==
    /\ EncodeReturned
    /\ \E n \in 2 .. Len(EncodedJournal) - 1 :
          EncodedJournal[n].fn = "getattr" /\ EncodedJournal[n + 1].fn = "getattr"

\* the kind of leaf each creating function stands for
KindOf(fn) ==
    CASE fn = "input" -> INPUT_ARTIFACT
      [] fn = "output" -> OUTPUT_ARTIFACT
      [] fn = "exec_property" -> EXEC_PROPERTY

RECURSIVE Rendering(_, _)

\* the expression an operand of '+' stands for
RenderingOfOperand(other) ==
    IF IsPlaceholder(other)
    THEN Rendering(journal[other.handle], Len(journal[other.handle]))
    ELSE [value |-> [string_value |-> other.str]]

\* the expression that results when the call wraps expression e: every
\* operator wraps e, but a '+' on a Concat extends its operands and a field
\* access on a ProtoFieldPath extends its path
Wrap(call, e) ==
    CASE call.fn = "getitem" ->
            [operator |-> [index_op |-> [expression |-> e, index |-> call.arg]]]
      [] call.fn = "uri" ->
            [operator |-> [artifact_uri_op |-> [expression |-> e, split |-> <<>>]]]
      [] call.fn = "split_uri" ->
            [operator |-> [artifact_uri_op |-> [expression |-> e, split |-> call.arg]]]
      [] call.fn = "value" ->
            [operator |-> [artifact_value_op |-> [expression |-> e]]]
      [] call.fn = "add" ->
            IF "operator" \in DOMAIN e /\ "concat_op" \in DOMAIN e.operator
            THEN [operator |-> [concat_op |-> [expressions |->
                    e.operator.concat_op.expressions \o <<RenderingOfOperand(call.arg)>>]]]
            ELSE [operator |-> [concat_op |-> [expressions |->
                    <<e, RenderingOfOperand(call.arg)>>]]]
      [] call.fn = "getattr" ->
            IF "operator" \in DOMAIN e /\ "proto_op" \in DOMAIN e.operator
            THEN [operator |-> [proto_op |->
                    [expression |-> e.operator.proto_op.expression,
                     proto_field_path |->
                        e.operator.proto_op.proto_field_path \o <<".">> \o call.arg]]]
            ELSE [operator |-> [proto_op |->
                    [expression |-> e, proto_field_path |-> call.arg]]]

\* the expression the first n calls of journal j stand for: the leaf of the
\* creating call, wrapped call after call
Rendering(j, n) ==
    IF n = 1 THEN [placeholder |-> [type |-> KindOf(j[1].fn), key |-> j[1].arg]]
    ELSE Wrap(j[n], Rendering(j, n - 1))

\* the leaf an expression has innermost
RECURSIVE Innermost(_)
Innermost(expression_pb) ==
    IF "operator" \notin DOMAIN expression_pb THEN expression_pb
    ELSE LET operator == expression_pb.operator
         IN  IF "concat_op" \in DOMAIN operator
                THEN Innermost(operator.concat_op.expressions[1])
             ELSE IF "proto_op" \in DOMAIN operator
                THEN Innermost(operator.proto_op.expression)
             ELSE IF "index_op" \in DOMAIN operator
                THEN Innermost(operator.index_op.expression)
             ELSE IF "artifact_uri_op" \in DOMAIN operator
                THEN Innermost(operator.artifact_uri_op.expression)
             ELSE Innermost(operator.artifact_value_op.expression)

\* the operator a call attaches
RootOf(fn) ==
    CASE fn \in {"uri", "split_uri"} -> "artifact_uri_op"
      [] fn = "value" -> "artifact_value_op"
      [] fn = "getitem" -> "index_op"
      [] fn = "add" -> "concat_op"
      [] fn = "getattr" -> "proto_op"

\* C14: encode() renders the tree from the leaf outward in attachment order:
\* innermost is the leaf with the kind of the creating function and its key,
\* each call wraps what the calls before it stand for, and the root is the
\* operator of the last call.
C14_EncodeRendersInOrder ==
    EncodeReturned =>
        LET j == EncodedJournal
        IN  /\ Innermost(encoded.ret) =
                  [placeholder |-> [type |-> KindOf(j[1].fn), key |-> j[1].arg]]
            /\ encoded.ret = Rendering(j, Len(j))
            /\ Len(j) > 1 =>
                  /\ "operator" \in DOMAIN encoded.ret
                  /\ RootOf(j[Len(j)].fn) \in DOMAIN encoded.ret.operator

\* encode() returned for a handle with two different operators attached
C14_Witness ==
    /\ EncodeReturned
    /\ Len(EncodedJournal) >= 3
    /\ EncodedJournal[1].fn = "input"
    /\ RootOf(EncodedJournal[2].fn) /= RootOf(EncodedJournal[3].fn)
    /\ "artifact_uri_op" \in DOMAIN encoded.ret.operator

\* C17: encode() returns an expression for every handle that fluent calls
\* can build, a handle concatenated with itself included.
C17_EncodeReturns ==
    encoded.handle /= 0 => encoded.error = ""

\* C19: the encoding of a handle depends only on the calls made on it: a
\* call on another handle leaves what encode() returns for it as it was.
C19_EncodingOfOwnCallsOnly ==
    [][\A p \in DOMAIN handles :
          journal'[p] = journal[p] =>
              PlaceholderEncode(handles', p, 0).ret = PlaceholderEncode(handles, p, 0).ret]_vars

----------------------------------------------------------------------------
(* Properties of compilation *)

\* the bindings of the n-th node that name a producer node
NodeBindings(pipeline, n) ==
    {pipeline[n].inputs[b] :
        b \in {c \in DOMAIN pipeline[n].inputs : pipeline[n].inputs[c].source = "node"}}

\* every channel binding references a producer declared earlier in the list
ForwardDeclaredOnly(pipeline) ==
    \A n \in DOMAIN pipeline : \A binding \in NodeBindings(pipeline, n) :
        \E m \in 1 .. n - 1 : pipeline[m].id = binding.producer

\* every channel binding references an output key its producer declares
KeysDeclared(pipeline) ==
    \A n \in DOMAIN pipeline : \A binding \in NodeBindings(pipeline, n) :
        \A m \in DOMAIN pipeline :
            pipeline[m].id = binding.producer => binding.key \in pipeline[m].outputs

\* every execution property value is of a kind the compiler translates
ValuesSupported(pipeline) ==
    \A n \in DOMAIN pipeline : \A p \in DOMAIN pipeline[n].exec_properties :
        pipeline[n].exec_properties[p] \in {"literal", "runtime_parameter", "placeholder"}

\* the node ids of a node list, in its order
IdsOf(nodes) == [n \in DOMAIN nodes |-> nodes[n].id]

\* compile succeeded and the compiled node list has the authored ids in order
CompiledInOrder ==
    /\ compiled.status = "compiled"
    /\ IdsOf(compiled.ir.nodes) = IdsOf(authored)

\* C15 as claimed: for every authored pipeline whose channel bindings
\* reference only producers declared earlier in the node list, compile
\* succeeds and the compiled node list has the same ids in the same order.
C15_ForwardDeclaredCompiles ==
    compiled.status /= "none" /\ ForwardDeclaredOnly(authored) => CompiledInOrder

\* C15 as amended: for every authored pipeline whose channel bindings
\* reference only producers declared earlier and only output keys those
\* producers declare, and whose execution property values are of a supported
\* kind, compile succeeds and the compiled node list has the same ids in the
\* same order.
C15_WellFormedCompiles ==
    /\ compiled.status /= "none"
    /\ ForwardDeclaredOnly(authored)
    /\ KeysDeclared(authored)
    /\ ValuesSupported(authored)
    => CompiledInOrder

\* a pipeline of two nodes, the second consuming an output of the first, was
\* compiled
C15_Witness ==
    /\ CompiledInOrder
    /\ Len(authored) = 2
    /\ NodeBindings(authored, 2) /= {}

\* C16: for every authored pipeline with a channel binding whose producer
\* does not appear earlier in the node list (undeclared, a forward reference
\* or a cycle), compile fails with CompilationError and returns no IR, not
\* even the nodes compiled before the offending one.
C16_UndeclaredProducerFails ==
    compiled.status /= "none" /\ ~ForwardDeclaredOnly(authored) =>
        /\ compiled.status = "CompilationError"
        /\ "ir" \notin DOMAIN compiled

\* compile failed at the second node for its producer, after the first node
\* was compiled
C16_Witness ==
    /\ compiled.status = "CompilationError"
    /\ "ir" \notin DOMAIN compiled
    /\ Len(authored) = 2
    /\ compiled.node = authored[2].id
    /\ compiled.violation = "unknown channel reference"
    /\ ~ForwardDeclaredOnly(authored)

====
